---- MODULE Spec2Model ----
(***************************************************************************)
(* A model of fastly/kv_store.go: the KV Store client operations, their    *)
(* local validation, the list filters and the two cursor paginators.       *)
(*                                                                         *)
(* Go strings are sequences of chunks over a uniquely decodable alphabet   *)
(* (letters, digits, "-", "/", "/keys", "/resources/stores/kv", and opaque *)
(* cursor tokens), so that "" is << >>, + is \o and two strings are equal  *)
(* exactly when their chunk sequences are.  A Go error is a tuple: << >>   *)
(* is nil.  A pointer to a record is a sequence of length 0 (nil) or 1.    *)
(* A Go map[string]string is a function from its keys.                     *)
(***************************************************************************)
EXTENDS Integers, Sequences, FiniteSets, TLC

VARIABLES
    ff,       \* SpecFilters: the formatFilters call under test
    spy,      \* SpecOps: number of transport invocations so far
    last,     \* SpecOps: the last client operation, its input and its result
    server,   \* SpecKV: the echoing transport's stored bodies, by path
    written,  \* SpecKV: the last value inserted per (ID, Key)
    got,      \* SpecKV: the last InsertKVStoreKey / GetKVStoreKey call
    puts,     \* SpecKV: number of PUT requests the transport has stored
    made,     \* SpecPag: which paginator has been constructed
    sp,       \* SpecPag: the ListKVStoresPaginator's fields
    kp,       \* SpecPag: the ListKVStoreKeysPaginator's fields
    input,    \* SpecPag: the caller's input record the paginator points to
    given,    \* SpecPag: that record as the caller passed it to the constructor
    hist      \* SpecPag: one entry per Next() call, as the caller and the transport saw it

vars == <<ff, spy, last, server, written, got, puts, made, sp, kp, input, given, hist>>
ffVars == <<ff>>
opsVars == <<spy, last>>
kvVars == <<server, written, got, puts>>
pagVars == <<made, sp, kp, input, given, hist>>

(***************************************************************************)
(* Bounds of the model.                                                    *)
(***************************************************************************)
MaxLimit == 12
MaxOps == 3
MaxNext == 4
MaxPuts == 3

(***************************************************************************)
(* Values.                                                                 *)
(***************************************************************************)
EmptyString == << >>
NoError == << >>
ErrMissingName == <<"ErrMissingName">>
ErrMissingID == <<"ErrMissingID">>
ErrMissingKey == <<"ErrMissingKey">>
ErrTransport == <<"transport">>
ErrDecode == <<"decode">>
StatusNoContent == 204
NilPointer == << >>
NilMap == [k \in {} |-> EmptyString]
NilSlice == << >>

\* m[k] of a Go map: the zero value when the key is absent (or the map nil).
MapGet(m, k) == IF k \in DOMAIN m THEN m[k] ELSE EmptyString

DigitChars == <<"0", "1", "2", "3", "4", "5", "6", "7", "8", "9">>

RECURSIVE NatDigits(_)
NatDigits(n) ==
    IF n < 10 THEN <<DigitChars[n + 1]>>
    ELSE NatDigits(n \div 10) \o <<DigitChars[(n % 10) + 1]>>

\* strconv.Itoa: the decimal rendering, "-" first for a negative number.
Itoa(n) == IF n < 0 THEN <<"-">> \o NatDigits(0 - n) ELSE NatDigits(n)

(***************************************************************************)
(* The list filters.                                                       *)
(***************************************************************************)
formatFiltersOrBug(l) ==
    IF l = NilPointer THEN NilMap
    ELSE IF l[1].Limit = 0 \/ l[1].Cursor = EmptyString THEN NilMap
    ELSE [k \in {"limit", "cursor"} |->
            IF k = "limit" THEN Itoa(l[1].Limit) ELSE l[1].Cursor]

\* (l *ListKVStoresInput) formatFilters
ListKVStoresInput_formatFilters(l) ==
    IF l = NilPointer THEN NilMap
    ELSE IF l[1].Limit = 0 /\ l[1].Cursor = EmptyString THEN NilMap
    ELSE [k \in (IF l[1].Limit # 0 THEN {"limit"} ELSE {})
                \cup (IF l[1].Cursor # EmptyString THEN {"cursor"} ELSE {}) |->
            IF k = "limit" THEN Itoa(l[1].Limit) ELSE l[1].Cursor]

\* (l *ListKVStoreKeysInput) formatFilters
ListKVStoreKeysInput_formatFilters(l) ==
    IF l = NilPointer THEN NilMap
    ELSE IF l[1].Limit = 0 /\ l[1].Cursor = EmptyString THEN NilMap
    ELSE [k \in (IF l[1].Limit # 0 THEN {"limit"} ELSE {})
                \cup (IF l[1].Cursor # EmptyString THEN {"cursor"} ELSE {}) |->
            IF k = "limit" THEN Itoa(l[1].Limit) ELSE l[1].Cursor]

(***************************************************************************)
(* The client operations.  Each takes its input and the outcome the        *)
(* transport (and the decoder) would give, and yields the requests it      *)
(* issued, in order, with its results.  A request that is never issued     *)
(* never consumes the outcome.                                             *)
(***************************************************************************)
KVPath == <<"/resources/stores/kv">>

Request(method, path, params, body) ==
    [method |-> method, path |-> path, params |-> params, body |-> body]

Result(reqs, val, err) == [reqs |-> reqs, val |-> val, err |-> err, panicked |-> FALSE]

\* A nil pointer dereference: the call does not return.
Panic(reqs) == [reqs |-> reqs, val |-> << >>, err |-> NoError, panicked |-> TRUE]

\* NewHTTPError: the error wrapping a response, exposing its status.
NewHTTPError(resp) == <<"HTTPError", resp.status>>

\* checkResp: the transport's error, or an HTTP error for a non-success status.
checkResp(resp, err) ==
    IF err # NoError THEN err
    ELSE IF resp.status \in {200, 201, 202, 204, 205, 206} THEN NoError
    ELSE NewHTTPError(resp)

\* (c *Client) CreateKVStore; PostJSON sends the input, whose one field is Name.
CreateKVStore(i, w) ==
    IF i.Name = EmptyString THEN Result(<< >>, NilPointer, ErrMissingName)
    ELSE LET req == Request("POST", KVPath, NilMap, i.Name) IN
         IF w.err # NoError THEN Result(<<req>>, NilPointer, w.err)
         ELSE IF w.decodeErr THEN Result(<<req>>, NilPointer, ErrDecode)
         ELSE Result(<<req>>, <<w.store>>, NoError)

\* (c *Client) ListKVStores
ListKVStores(i, w) ==
    LET req == Request("GET", KVPath, ListKVStoresInput_formatFilters(i), EmptyString) IN
    IF w.err # NoError THEN Result(<<req>>, NilPointer, w.err)
    ELSE IF w.decodeErr THEN Result(<<req>>, NilPointer, ErrDecode)
    ELSE Result(<<req>>, <<[Data |-> w.Data, Meta |-> w.Meta]>>, NoError)

\* (c *Client) GetKVStore
GetKVStore(i, w) ==
    IF i.ID = EmptyString THEN Result(<< >>, NilPointer, ErrMissingID)
    ELSE LET req == Request("GET", KVPath \o <<"/">> \o i.ID, NilMap, EmptyString) IN
         IF w.err # NoError THEN Result(<<req>>, NilPointer, w.err)
         ELSE IF w.decodeErr THEN Result(<<req>>, NilPointer, ErrDecode)
         ELSE Result(<<req>>, <<w.store>>, NoError)

DeleteKVStoreAny2xx(i, w) ==
    IF i.ID = EmptyString THEN Result(<< >>, << >>, ErrMissingID)
    ELSE LET req == Request("DELETE", KVPath \o <<"/">> \o i.ID, NilMap, EmptyString) IN
         IF w.err # NoError THEN Result(<<req>>, << >>, w.err)
         ELSE IF w.status < 200 \/ w.status > 299 THEN Result(<<req>>, << >>, NewHTTPError(w))
         ELSE Result(<<req>>, << >>, NoError)

\* (c *Client) DeleteKVStore
DeleteKVStore(i, w) ==
    IF i.ID = EmptyString THEN Result(<< >>, << >>, ErrMissingID)
    ELSE LET req == Request("DELETE", KVPath \o <<"/">> \o i.ID, NilMap, EmptyString) IN
         IF w.err # NoError THEN Result(<<req>>, << >>, w.err)
         ELSE IF w.status # StatusNoContent THEN Result(<<req>>, << >>, NewHTTPError(w))
         ELSE Result(<<req>>, << >>, NoError)

\* (c *Client) ListKVStoreKeys; i.ID on a nil input is a nil dereference.
ListKVStoreKeys(i, w) ==
    IF i = NilPointer THEN Panic(<< >>)
    ELSE IF i[1].ID = EmptyString THEN Result(<< >>, NilPointer, ErrMissingID)
    ELSE LET req == Request("GET", KVPath \o <<"/">> \o i[1].ID \o <<"/keys">>,
                            ListKVStoreKeysInput_formatFilters(i), EmptyString) IN
         IF w.err # NoError THEN Result(<<req>>, NilPointer, w.err)
         ELSE IF w.decodeErr THEN Result(<<req>>, NilPointer, ErrDecode)
         ELSE Result(<<req>>, <<[Data |-> w.Data, Meta |-> w.Meta]>>, NoError)

\* The path of one key of one store.
KeyPath(id, key) == KVPath \o <<"/">> \o id \o <<"/keys", "/">> \o key

GetKVStoreKeyKeyFirst(i, w) ==
    IF i.Key = EmptyString THEN Result(<< >>, EmptyString, ErrMissingKey)
    ELSE IF i.ID = EmptyString THEN Result(<< >>, EmptyString, ErrMissingID)
    ELSE LET req == Request("GET", KeyPath(i.ID, i.Key), NilMap, EmptyString) IN
         IF w.err # NoError THEN Result(<<req>>, EmptyString, w.err)
         ELSE IF w.readErr THEN Result(<<req>>, EmptyString, ErrDecode)
         ELSE Result(<<req>>, w.body, NoError)

\* (c *Client) GetKVStoreKey; the body is returned as read, not decoded.
GetKVStoreKey(i, w) ==
    IF i.ID = EmptyString THEN Result(<< >>, EmptyString, ErrMissingID)
    ELSE IF i.Key = EmptyString THEN Result(<< >>, EmptyString, ErrMissingKey)
    ELSE LET req == Request("GET", KeyPath(i.ID, i.Key), NilMap, EmptyString) IN
         IF w.err # NoError THEN Result(<<req>>, EmptyString, w.err)
         ELSE IF w.readErr THEN Result(<<req>>, EmptyString, ErrDecode)
         ELSE Result(<<req>>, w.body, NoError)

\* (c *Client) InsertKVStoreKey; the value is the request's body.
InsertKVStoreKey(i, w) ==
    IF i.ID = EmptyString THEN Result(<< >>, << >>, ErrMissingID)
    ELSE IF i.Key = EmptyString THEN Result(<< >>, << >>, ErrMissingKey)
    ELSE LET req == Request("PUT", KeyPath(i.ID, i.Key), NilMap, i.Value) IN
         IF w.err # NoError THEN Result(<<req>>, << >>, w.err)
         ELSE Result(<<req>>, << >>, checkResp(w, w.err))

\* (c *Client) DeleteKVStoreKey
DeleteKVStoreKey(i, w) ==
    IF i.ID = EmptyString THEN Result(<< >>, << >>, ErrMissingID)
    ELSE IF i.Key = EmptyString THEN Result(<< >>, << >>, ErrMissingKey)
    ELSE LET req == Request("DELETE", KeyPath(i.ID, i.Key), NilMap, EmptyString) IN
         IF w.err # NoError THEN Result(<<req>>, << >>, w.err)
         ELSE IF w.status # StatusNoContent THEN Result(<<req>>, << >>, NewHTTPError(w))
         ELSE Result(<<req>>, << >>, NoError)

(***************************************************************************)
(* The paginators.  Next takes the paginator's fields, the input record    *)
(* its input pointer leads to and the outcome the transport would give;    *)
(* it yields the fields and the input record after the call, what the      *)
(* call returned ("true", "false", or "panic" when it did not return),     *)
(* and the list call it made, if any.                                      *)
(***************************************************************************)
Step(l, inp, ret, sent, res) ==
    [l |-> l, input |-> inp, ret |-> ret, sent |-> sent, res |-> res]

\* (c *Client) NewListKVStoresPaginator: every field but client and input is zero.
NewListKVStoresPaginator(i) ==
    [cursor |-> EmptyString, err |-> NoError, finished |-> FALSE, stores |-> NilSlice]

StoresFinishedKeepsPage(l, inp) == Step(l, inp, "false", << >>, << >>)

StoresFinishedRewinds(l, inp) ==
    Step([l EXCEPT !.stores = NilSlice, !.cursor = EmptyString], inp, "false", << >>, << >>)

\* Next, when already finished: the page is cleared, nothing else is touched.
StoresFinished(l, inp) ==
    Step([l EXCEPT !.stores = NilSlice], inp, "false", << >>, << >>)

StoresCursorKept(l, inp) == inp

\* l.input.Cursor = l.cursor
StoresSetCursor(l, inp) == [inp EXCEPT !.Cursor = l.cursor]

\* if err != nil { l.err = err; l.finished = true }
StoresRecord(l, r) ==
    IF r.err # NoError THEN [l EXCEPT !.err = r.err, !.finished = TRUE] ELSE l

StoresTakeDropsLast(l, in1, r) ==
    IF r.val = NilPointer
    THEN Step(l, in1, "panic", <<in1>>, <<r>>)
    ELSE LET o == r.val[1]
             next == MapGet(o.Meta, "next_cursor")
         IN  IF next = EmptyString
             THEN Step([l EXCEPT !.finished = TRUE], in1, "false", <<in1>>, <<r>>)
             ELSE Step([l EXCEPT !.stores = o.Data, !.cursor = next], in1, "true",
                       <<in1>>, <<r>>)

\* l.stores = o.Data and the next_cursor test; o is nil when the list call
\* failed, and o.Data then is a nil dereference: Next does not return.
StoresTake(l, in1, r) ==
    IF r.val = NilPointer
    THEN Step(l, in1, "panic", <<in1>>, <<r>>)
    ELSE LET o == r.val[1]
             next == MapGet(o.Meta, "next_cursor")
             l2 == [l EXCEPT !.stores = o.Data]
             l3 == IF next = EmptyString
                   THEN [l2 EXCEPT !.finished = TRUE]
                   ELSE [l2 EXCEPT !.cursor = next]
         IN  Step(l3, in1, "true", <<in1>>, <<r>>)

\* (l *ListKVStoresPaginator) Next
ListKVStoresPaginator_Next(l, inp, w) ==
    IF l.finished
    THEN StoresFinished(l, inp)
    ELSE LET in1 == StoresSetCursor(l, inp)
             r == ListKVStores(<<in1>>, w)
         IN  StoresTake(StoresRecord(l, r), in1, r)

\* (l *ListKVStoresPaginator) Stores
Stores(l) == l.stores

\* (l *ListKVStoresPaginator) Err
StoresErr(l) == l.err

\* (c *Client) NewListKVStoreKeysPaginator
NewListKVStoreKeysPaginator(i) ==
    [cursor |-> EmptyString, err |-> NoError, finished |-> FALSE, keys |-> NilSlice]

KeysFinishedSetsCursor(l, inp) ==
    Step([l EXCEPT !.keys = NilSlice], [inp EXCEPT !.Cursor = l.cursor], "false", << >>, << >>)

\* Next, when already finished: the page is cleared, nothing else is touched.
KeysFinished(l, inp) ==
    Step([l EXCEPT !.keys = NilSlice], inp, "false", << >>, << >>)

\* l.input.Cursor = l.cursor
KeysSetCursor(l, inp) == [inp EXCEPT !.Cursor = l.cursor]

\* if err != nil { l.err = err; l.finished = true }
KeysRecord(l, r) ==
    IF r.err # NoError THEN [l EXCEPT !.err = r.err, !.finished = TRUE] ELSE l

\* l.keys = o.Data and the next_cursor test; o is nil when the list call
\* failed, and o.Data then is a nil dereference: Next does not return.
KeysTake(l, in1, r) ==
    IF r.val = NilPointer
    THEN Step(l, in1, "panic", <<in1>>, <<r>>)
    ELSE LET o == r.val[1]
             next == MapGet(o.Meta, "next_cursor")
             l2 == [l EXCEPT !.keys = o.Data]
             l3 == IF next = EmptyString
                   THEN [l2 EXCEPT !.finished = TRUE]
                   ELSE [l2 EXCEPT !.cursor = next]
         IN  Step(l3, in1, "true", <<in1>>, <<r>>)

\* (l *ListKVStoreKeysPaginator) Next
ListKVStoreKeysPaginator_Next(l, inp, w) ==
    IF l.finished
    THEN KeysFinished(l, inp)
    ELSE LET in1 == KeysSetCursor(l, inp)
             r == ListKVStoreKeys(<<in1>>, w)
         IN  KeysTake(KeysRecord(l, r), in1, r)

\* (l *ListKVStoreKeysPaginator) Keys
Keys(l) == l.keys

\* (l *ListKVStoreKeysPaginator) Err
KeysErr(l) == l.err

(***************************************************************************)
(* What the environment supplies.                                          *)
(***************************************************************************)
Cursors == {<<"c1">>, <<"c2">>}
Limits == {0, 5}
StoreIDs == {EmptyString, <<"a">>}
KVStore(id, name) ==
    [CreatedAt |-> NilPointer, ID |-> id, Name |-> name, UpdatedAt |-> NilPointer]
StorePages == {NilSlice, <<KVStore(<<"b">>, <<"m">>), KVStore(<<"a">>, <<"n">>)>>}
KeyPages == {NilSlice, <<(<<"z">>), (<<"k">>)>>}
Metas == {NilMap, [k \in {"next_cursor"} |-> EmptyString]}
            \cup {[k \in {"next_cursor"} |-> c] : c \in Cursors}

\* The outcomes of a list round trip: a transport error, a body that does not
\* decode, or a decoded response.
ListWire(pages) ==
    {[err |-> ErrTransport, decodeErr |-> FALSE, Data |-> NilSlice, Meta |-> NilMap],
     [err |-> NoError, decodeErr |-> TRUE, Data |-> NilSlice, Meta |-> NilMap]}
    \cup {[err |-> NoError, decodeErr |-> FALSE, Data |-> d, Meta |-> m] :
            d \in pages, m \in Metas}

StoresInputs == {[Cursor |-> c, Limit |-> n] : c \in Cursors \cup {EmptyString}, n \in Limits}
KeysInputs == {[Cursor |-> c, ID |-> id, Limit |-> n] :
                 c \in Cursors \cup {EmptyString}, id \in StoreIDs, n \in Limits}

(***************************************************************************)
(* SpecPag: a caller constructs one paginator and calls Next on it.        *)
(***************************************************************************)
\* What one Next() call looked like from outside: what it returned, what the
\* accessors give right after it, and the list call it made.
Entry(before, st, page, w) ==
    [ret |-> st.ret, page |-> page, err |-> st.l.err,
     listed |-> st.sent # << >>, sent |-> st.sent, res |-> st.res,
     reqs |-> IF st.res = << >> THEN << >> ELSE st.res[1].reqs,
     wire |-> IF st.res = << >> \/ st.res[1].reqs = << >> THEN << >> ELSE <<w>>,
     before |-> before, after |-> st.l]

ZeroStores == NewListKVStoresPaginator(NilPointer)
ZeroKeys == NewListKVStoreKeysPaginator(NilPointer)

PagIdle ==
    /\ made = "none" /\ sp = ZeroStores /\ kp = ZeroKeys
    /\ input = NilPointer /\ given = NilPointer /\ hist = << >>

ConstructStores ==
    /\ made = "none"
    /\ \E i \in StoresInputs :
         /\ sp' = NewListKVStoresPaginator(<<i>>)
         /\ input' = <<i>>
         /\ given' = <<i>>
    /\ made' = "stores"
    /\ UNCHANGED <<kp, hist, ff, spy, last, server, written, got, puts>>

ConstructKeys ==
    /\ made = "none"
    /\ \E i \in KeysInputs :
         /\ kp' = NewListKVStoreKeysPaginator(<<i>>)
         /\ input' = <<i>>
         /\ given' = <<i>>
    /\ made' = "keys"
    /\ UNCHANGED <<sp, hist, ff, spy, last, server, written, got, puts>>

StoresNext ==
    /\ made = "stores"
    /\ Len(hist) < MaxNext
    /\ \E w \in ListWire(StorePages) :
         LET st == ListKVStoresPaginator_Next(sp, input[1], w) IN
         /\ sp' = st.l
         /\ input' = <<st.input>>
         /\ hist' = Append(hist, Entry(sp, st, Stores(st.l), w))
    /\ UNCHANGED <<made, kp, given, ff, spy, last, server, written, got, puts>>

KeysNext ==
    /\ made = "keys"
    /\ Len(hist) < MaxNext
    /\ \E w \in ListWire(KeyPages) :
         LET st == ListKVStoreKeysPaginator_Next(kp, input[1], w) IN
         /\ kp' = st.l
         /\ input' = <<st.input>>
         /\ hist' = Append(hist, Entry(kp, st, Keys(st.l), w))
    /\ UNCHANGED <<made, sp, given, ff, spy, last, server, written, got, puts>>

\* The caller still holds the input record and may write its Cursor.
CallerSetsCursor ==
    /\ made # "none"
    /\ \E c \in Cursors \cup {EmptyString} :
         /\ c # input[1].Cursor
         /\ input' = <<[input[1] EXCEPT !.Cursor = c]>>
    /\ UNCHANGED <<made, sp, kp, given, hist, ff, spy, last, server, written, got, puts>>

NoCall == [op |-> "none", in |-> << >>, wire |-> << >>,
           res |-> Result(<< >>, << >>, NoError), before |-> 0, after |-> 0]
NoBodies == [p \in {} |-> EmptyString]

FFIdle == ff = [recv |-> "none", in |-> NilPointer, out |-> NilMap, done |-> FALSE]
OpsIdle == spy = 0 /\ last = NoCall
KVIdle == server = NoBodies /\ written = NoBodies /\ got = NoCall /\ puts = 0

InitPag == PagIdle /\ FFIdle /\ OpsIdle /\ KVIdle

NextPag == ConstructStores \/ ConstructKeys \/ StoresNext \/ KeysNext \/ CallerSetsCursor

SpecPag == InitPag /\ [][NextPag]_vars

(***************************************************************************)
(* The paginator claims, over SpecPag.                                     *)
(***************************************************************************)
CurP == IF made = "keys" THEN kp ELSE sp
CurPage == IF made = "keys" THEN Keys(kp) ELSE Stores(sp)
CurErr == IF made = "keys" THEN KeysErr(kp) ELSE StoresErr(sp)

\* The k-th Next() got a decoded list response from the transport.
Responded(k) ==
    /\ hist[k].wire # << >>
    /\ hist[k].wire[1].err = NoError
    /\ ~hist[k].wire[1].decodeErr
NextCursorOf(k) == MapGet(hist[k].wire[1].Meta, "next_cursor")
\* The list call of the k-th Next() failed.
Failed(k) == hist[k].res # << >> /\ hist[k].res[1].err # NoError
\* Every Next() before the k-th got a response with a non-empty next_cursor.
MorePagesBefore(k) == \A j \in 1..(k - 1) : Responded(j) /\ NextCursorOf(j) # EmptyString
\* Some Next() before the k-th got a response with no next_cursor.
ExhaustedBefore(k) == \E j \in 1..(k - 1) : Responded(j) /\ NextCursorOf(j) = EmptyString
SentCursor(k) ==
    IF hist[k].reqs = << >> THEN EmptyString
    ELSE MapGet(hist[k].reqs[1].params, "cursor")

\* C1: while every response so far carried a next_cursor, the next Next() asks
\* the transport once and, given a response, returns true with exactly that
\* response's page, in its order; the page without a next_cursor is delivered
\* with true, and the Next() after it returns false.
C1_RoundTrip ==
    \A k \in 1..Len(hist) :
        (MorePagesBefore(k) /\ (made = "keys" => given[1].ID # EmptyString)) =>
            /\ Len(hist[k].reqs) = 1
            /\ Responded(k) =>
                 /\ hist[k].ret = "true"
                 /\ hist[k].page = hist[k].wire[1].Data
                 /\ (NextCursorOf(k) = EmptyString /\ k < Len(hist)) =>
                        hist[k + 1].ret = "false"

C1_Witness ==
    /\ Len(hist) = 4
    /\ Responded(1) /\ NextCursorOf(1) = <<"c1">> /\ hist[1].page # NilSlice
    /\ Responded(2) /\ NextCursorOf(2) = <<"c2">>
    /\ Responded(3) /\ NextCursorOf(3) = EmptyString /\ hist[3].page # NilSlice
    /\ hist[3].ret = "true"
    /\ hist[4].ret = "false"

\* C2: a Next() whose list call fails records the error, sets finished and
\* completes; later calls return false, make no list call, and Err() gives the
\* recorded error.
C2_FailureCompletes ==
    \A k \in 1..Len(hist) :
        Failed(k) =>
            /\ hist[k].ret \in {"true", "false"}
            /\ hist[k].err = hist[k].res[1].err
            /\ hist[k].after.finished
            /\ \A j \in (k + 1)..Len(hist) :
                 /\ hist[j].ret = "false"
                 /\ ~hist[j].listed
                 /\ hist[j].err = hist[k].res[1].err

\* C3: after a response without a next_cursor, every further Next() returns
\* false, leaves the page empty and makes no list call.
C3_Idempotent ==
    \A k \in 1..Len(hist) :
        ExhaustedBefore(k) =>
            /\ hist[k].ret = "false"
            /\ hist[k].page = NilSlice
            /\ ~hist[k].listed
            /\ hist[k].reqs = << >>

C3_Witness ==
    /\ Len(hist) >= 3
    /\ Responded(1) /\ NextCursorOf(1) = EmptyString /\ hist[1].page # NilSlice
    /\ hist[2].ret = "false" /\ hist[3].ret = "false"
    /\ CurPage = NilSlice

\* C4: a paginator starts with an empty cursor, not finished, no error and no
\* page; once finished it stays finished, and its cursor and its error never
\* change again.
C4_Terminal ==
    [][/\ (made = "none" /\ made' # "none") =>
            /\ CurP'.cursor = EmptyString /\ ~CurP'.finished
            /\ CurErr' = NoError /\ CurPage' = NilSlice
       /\ (made # "none" /\ CurP.finished) =>
            /\ CurP'.finished
            /\ CurP'.cursor = CurP.cursor
            /\ CurErr' = CurErr]_vars

C4_Witness ==
    /\ Len(hist) >= 4
    /\ CurP.finished
    /\ CurP.cursor # EmptyString
    /\ CurErr # NoError
    /\ hist[Len(hist)].ret = "false"
    /\ hist[Len(hist) - 1].ret = "false"

\* C5: the first list call is sent the empty cursor; each later list call is
\* sent exactly the next_cursor of the response before it; a list call is made
\* exactly when the paginator is not finished; and a response marks the
\* paginator finished exactly when its next_cursor is empty or absent.
C5_Chaining ==
    \A k \in 1..Len(hist) :
        /\ hist[k].listed <=> ~hist[k].before.finished
        /\ (k = 1 /\ hist[k].listed) =>
              /\ hist[k].sent[1].Cursor = EmptyString
              /\ SentCursor(k) = EmptyString
        /\ (k > 1 /\ hist[k].listed) =>
              /\ Responded(k - 1)
              /\ hist[k].sent[1].Cursor = NextCursorOf(k - 1)
              /\ hist[k].reqs # << >> => SentCursor(k) = NextCursorOf(k - 1)
        /\ Responded(k) => (hist[k].after.finished <=> NextCursorOf(k) = EmptyString)

C5_Witness ==
    /\ Len(hist) >= 3
    /\ given[1].Cursor # EmptyString
    /\ Responded(1) /\ NextCursorOf(1) = <<"c1">>
    /\ Responded(2) /\ NextCursorOf(2) = <<"c2">>
    /\ SentCursor(1) = EmptyString /\ SentCursor(2) = <<"c1">> /\ SentCursor(3) = <<"c2">>

\* The limit parameter a list request carries for Limit n, if any.
C10_Limit(n) == IF n = 0 THEN EmptyString ELSE Itoa(n)

\* C10: a Next() on a paginator that is not finished writes the paginator's
\* stored cursor into the caller's input record before the list call, so the
\* Cursor the caller supplied is discarded and the first request starts from
\* the beginning; Limit and ID are never written and go out the same on every
\* list call; a Next() on a finished paginator leaves the record alone.
C10_InputFrame ==
    [][(made # "none" /\ hist' # hist) =>
         LET e == hist'[Len(hist')] IN
         /\ input'[1].Limit = given[1].Limit
         /\ made = "keys" => input'[1].ID = given[1].ID
         /\ CurP.finished => input' = input
         /\ ~CurP.finished =>
              /\ input'[1].Cursor = CurP.cursor
              /\ e.sent = input'
              /\ Len(hist) = 0 => input'[1].Cursor = EmptyString
              /\ e.reqs # << >> =>
                   /\ MapGet(e.reqs[1].params, "cursor") = CurP.cursor
                   /\ MapGet(e.reqs[1].params, "limit") = C10_Limit(given[1].Limit)
                   /\ made = "keys" =>
                        e.reqs[1].path = KVPath \o <<"/">> \o given[1].ID \o <<"/keys">>]_vars

C10_Witness ==
    /\ Len(hist) >= 3
    /\ given[1].Cursor = <<"c2">>
    /\ given[1].Limit # 0
    /\ hist[1].reqs # << >> /\ "cursor" \notin DOMAIN hist[1].reqs[1].params
    /\ hist[2].reqs # << >> /\ hist[2].reqs[1].params["limit"] = Itoa(given[1].Limit)
    /\ ~hist[3].listed
    /\ input[1].Cursor # CurP.cursor

(***************************************************************************)
(* SpecFilters: formatFilters applied to one input.                        *)
(***************************************************************************)
FilterLimits == (0 - MaxLimit)..MaxLimit
StoresFilterInputs ==
    {NilPointer} \cup {<<[Cursor |-> c, Limit |-> n]>> :
                         c \in Cursors \cup {EmptyString}, n \in FilterLimits}
KeysFilterInputs ==
    {NilPointer} \cup {<<[Cursor |-> c, ID |-> id, Limit |-> n]>> :
                         c \in Cursors \cup {EmptyString}, id \in StoreIDs, n \in FilterLimits}

InitFilters ==
    /\ \/ \E i \in StoresFilterInputs :
            ff = [recv |-> "stores", in |-> i, out |-> NilMap, done |-> FALSE]
       \/ \E i \in KeysFilterInputs :
            ff = [recv |-> "keys", in |-> i, out |-> NilMap, done |-> FALSE]
    /\ OpsIdle /\ KVIdle /\ PagIdle

StoresFormatFilters ==
    /\ ff.recv = "stores" /\ ~ff.done
    /\ ff' = [ff EXCEPT !.out = ListKVStoresInput_formatFilters(ff.in), !.done = TRUE]
    /\ UNCHANGED <<opsVars, kvVars, pagVars>>

KeysFormatFilters ==
    /\ ff.recv = "keys" /\ ~ff.done
    /\ ff' = [ff EXCEPT !.out = ListKVStoreKeysInput_formatFilters(ff.in), !.done = TRUE]
    /\ UNCHANGED <<opsVars, kvVars, pagVars>>

NextFilters == StoresFormatFilters \/ KeysFormatFilters

SpecFilters == InitFilters /\ [][NextFilters]_vars

\* The number a digit sequence denotes, most significant digit first.
RECURSIVE C9_Value(_)
C9_Value(ds) ==
    IF ds = << >> THEN 0
    ELSE 10 * C9_Value(SubSeq(ds, 1, Len(ds) - 1))
         + (CHOOSE d \in 0..9 : DigitChars[d + 1] = ds[Len(ds)])

\* s is the decimal rendering of n: digits only, "-" first exactly when n is
\* negative, no leading zero, and denoting n.
C9_Decimal(s, n) ==
    LET ds == IF s # << >> /\ s[1] = "-" THEN Tail(s) ELSE s IN
    /\ ds # << >>
    /\ \A j \in 1..Len(ds) : \E d \in 0..9 : DigitChars[d + 1] = ds[j]
    /\ (Len(ds) > 1 => ds[1] # "0")
    /\ (s[1] = "-") <=> (n < 0)
    /\ C9_Value(ds) = (IF n < 0 THEN 0 - n ELSE n)

\* C9: the parameters formatFilters emits hold "limit" exactly when Limit # 0
\* (the decimal rendering of Limit), "cursor" exactly when Cursor is non-empty
\* (Cursor itself), and nothing else; none at all for a nil input or for
\* Limit = 0 with an empty Cursor.
C9_Filters ==
    ff.done =>
        IF ff.in = NilPointer THEN DOMAIN ff.out = {}
        ELSE LET i == ff.in[1] IN
             /\ DOMAIN ff.out \subseteq {"limit", "cursor"}
             /\ ("limit" \in DOMAIN ff.out) <=> (i.Limit # 0)
             /\ ("limit" \in DOMAIN ff.out) => C9_Decimal(ff.out["limit"], i.Limit)
             /\ ("cursor" \in DOMAIN ff.out) <=> (i.Cursor # EmptyString)
             /\ ("cursor" \in DOMAIN ff.out) => ff.out["cursor"] = i.Cursor
             /\ (i.Limit = 0 /\ i.Cursor = EmptyString) => ff.out = NilMap

C9_Witness ==
    /\ ff.done /\ ff.recv = "stores" /\ ff.in # NilPointer
    /\ ff.in[1].Limit = 0 - 10 /\ ff.in[1].Cursor = EmptyString
    /\ DOMAIN ff.out = {"limit"}
    /\ ff.out["limit"] = <<"-", "1", "0">>

(***************************************************************************)
(* SpecOps: a caller makes client calls against a transport that counts    *)
(* its invocations and answers as it pleases.                              *)
(***************************************************************************)
IDs == {EmptyString, <<"a">>, <<"a", "/keys", "/", "b">>}
KeyNames == {EmptyString, <<"c">>, <<"b", "/keys", "/", "c">>}
Values == {EmptyString, <<"v">>, <<"w">>}
Statuses == {200, 202, 204, 404, 500}

StoreWire ==
    {[err |-> ErrTransport, decodeErr |-> FALSE, store |-> KVStore(EmptyString, EmptyString)],
     [err |-> NoError, decodeErr |-> TRUE, store |-> KVStore(EmptyString, EmptyString)],
     [err |-> NoError, decodeErr |-> FALSE, store |-> KVStore(<<"a">>, <<"n">>)]}
StatusWire ==
    {[err |-> ErrTransport, status |-> 0]} \cup {[err |-> NoError, status |-> c] : c \in Statuses}
TextWire ==
    {[err |-> ErrTransport, readErr |-> FALSE, body |-> EmptyString],
     [err |-> NoError, readErr |-> TRUE, body |-> EmptyString]}
    \cup {[err |-> NoError, readErr |-> FALSE, body |-> v] : v \in Values}

InitOps == OpsIdle /\ FFIdle /\ KVIdle /\ PagIdle

\* One client call as the caller and the transport's counter see it.
Called(op, i, w, res) ==
    [op |-> op, in |-> i, wire |-> w, res |-> res,
     before |-> spy, after |-> spy + Len(res.reqs)]

DoCreateKVStore ==
    /\ spy < MaxOps
    /\ \E n \in {EmptyString, <<"n">>}, w \in StoreWire :
         LET res == CreateKVStore([Name |-> n], w) IN
         /\ last' = Called("CreateKVStore", [Name |-> n], w, res)
         /\ spy' = spy + Len(res.reqs)
    /\ UNCHANGED <<ffVars, kvVars, pagVars>>

DoListKVStores ==
    /\ spy < MaxOps
    /\ \E i \in {NilPointer} \cup {<<x>> : x \in StoresInputs}, w \in ListWire(StorePages) :
         LET res == ListKVStores(i, w) IN
         /\ last' = Called("ListKVStores", i, w, res)
         /\ spy' = spy + Len(res.reqs)
    /\ UNCHANGED <<ffVars, kvVars, pagVars>>

DoGetKVStore ==
    /\ spy < MaxOps
    /\ \E id \in IDs, w \in StoreWire :
         LET res == GetKVStore([ID |-> id], w) IN
         /\ last' = Called("GetKVStore", [ID |-> id], w, res)
         /\ spy' = spy + Len(res.reqs)
    /\ UNCHANGED <<ffVars, kvVars, pagVars>>

DoDeleteKVStore ==
    /\ spy < MaxOps
    /\ \E id \in IDs, w \in StatusWire :
         LET res == DeleteKVStore([ID |-> id], w) IN
         /\ last' = Called("DeleteKVStore", [ID |-> id], w, res)
         /\ spy' = spy + Len(res.reqs)
    /\ UNCHANGED <<ffVars, kvVars, pagVars>>

DoListKVStoreKeys ==
    /\ spy < MaxOps
    /\ \E i \in {NilPointer} \cup {<<x>> : x \in KeysInputs}, w \in ListWire(KeyPages) :
         LET res == ListKVStoreKeys(i, w) IN
         /\ last' = Called("ListKVStoreKeys", i, w, res)
         /\ spy' = spy + Len(res.reqs)
    /\ UNCHANGED <<ffVars, kvVars, pagVars>>

DoGetKVStoreKey ==
    /\ spy < MaxOps
    /\ \E id \in IDs, k \in KeyNames, w \in TextWire :
         LET res == GetKVStoreKey([ID |-> id, Key |-> k], w) IN
         /\ last' = Called("GetKVStoreKey", [ID |-> id, Key |-> k], w, res)
         /\ spy' = spy + Len(res.reqs)
    /\ UNCHANGED <<ffVars, kvVars, pagVars>>

DoInsertKVStoreKey ==
    /\ spy < MaxOps
    /\ \E id \in IDs, k \in KeyNames, v \in Values, w \in StatusWire :
         LET i == [ID |-> id, Key |-> k, Value |-> v]
             res == InsertKVStoreKey(i, w)
         IN  /\ last' = Called("InsertKVStoreKey", i, w, res)
             /\ spy' = spy + Len(res.reqs)
    /\ UNCHANGED <<ffVars, kvVars, pagVars>>

DoDeleteKVStoreKey ==
    /\ spy < MaxOps
    /\ \E id \in IDs, k \in KeyNames, w \in StatusWire :
         LET res == DeleteKVStoreKey([ID |-> id, Key |-> k], w) IN
         /\ last' = Called("DeleteKVStoreKey", [ID |-> id, Key |-> k], w, res)
         /\ spy' = spy + Len(res.reqs)
    /\ UNCHANGED <<ffVars, kvVars, pagVars>>

NextOps ==
    \/ DoCreateKVStore \/ DoListKVStores \/ DoGetKVStore \/ DoDeleteKVStore
    \/ DoListKVStoreKeys \/ DoGetKVStoreKey \/ DoInsertKVStoreKey \/ DoDeleteKVStoreKey

SpecOps == InitOps /\ [][NextOps]_vars

C6_Local == {ErrMissingName, ErrMissingID, ErrMissingKey}
C6_Rejected(e) == last.res.err = e /\ last.res.reqs = << >> /\ last.after = last.before

C7_Delete ==
    (/\ last.op \in {"DeleteKVStore", "DeleteKVStoreKey"}
     /\ last.in.ID # EmptyString
     /\ last.op = "DeleteKVStoreKey" => last.in.Key # EmptyString
     /\ last.wire.err = NoError) =>
        /\ Len(last.res.reqs) = 1
        /\ (last.res.err = NoError) <=> (last.wire.status = 204)
        /\ last.wire.status # 204 => last.res.err = <<"HTTPError", last.wire.status>>

C7_Witness ==
    /\ last.op = "DeleteKVStore"
    /\ last.in.ID # EmptyString
    /\ last.wire.err = NoError /\ last.wire.status = 200
    /\ last.res.err = <<"HTTPError", 200>>

(***************************************************************************)
(* SpecKV: InsertKVStoreKey and GetKVStoreKey against a transport that     *)
(* stores what PUT writes, by path, and returns it on GET.                 *)
(***************************************************************************)
PutOK == [err |-> NoError, status |-> 200]
NotFound == [err |-> <<"HTTPError", 404>>, readErr |-> FALSE, body |-> EmptyString]

\* The transport's answer to PUT: the body is stored under the request's path.
EchoPut(reqs) ==
    IF reqs = << >> THEN server
    ELSE [p \in DOMAIN server \cup {reqs[1].path} |->
            IF p = reqs[1].path THEN reqs[1].body ELSE server[p]]

\* The transport's answer to GET: the stored body, or not found.
EchoGet(reqs) ==
    IF reqs # << >> /\ reqs[1].path \in DOMAIN server
    THEN [err |-> NoError, readErr |-> FALSE, body |-> server[reqs[1].path]]
    ELSE NotFound

InitKV == KVIdle /\ OpsIdle /\ FFIdle /\ PagIdle

KVInsert ==
    /\ puts < MaxPuts
    /\ \E id \in IDs, k \in KeyNames, v \in Values :
         LET i == [ID |-> id, Key |-> k, Value |-> v]
             res == InsertKVStoreKey(i, PutOK)
         IN  /\ server' = EchoPut(res.reqs)
             /\ written' = IF res.err # NoError THEN written
                           ELSE [q \in DOMAIN written \cup {<<id, k>>} |->
                                   IF q = <<id, k>> THEN v ELSE written[q]]
             /\ got' = [op |-> "InsertKVStoreKey", in |-> i, wire |-> PutOK, res |-> res,
                        before |-> puts, after |-> puts + Len(res.reqs)]
             /\ puts' = puts + Len(res.reqs)
    /\ UNCHANGED <<spy, last, ffVars, pagVars>>

KVGet ==
    /\ \E id \in IDs, k \in KeyNames :
         LET i == [ID |-> id, Key |-> k]
             w == EchoGet(GetKVStoreKey(i, NotFound).reqs)
             res == GetKVStoreKey(i, w)
         IN  got' = [op |-> "GetKVStoreKey", in |-> i, wire |-> w, res |-> res,
                     before |-> puts, after |-> puts]
    /\ UNCHANGED <<server, written, puts, spy, last, ffVars, pagVars>>

NextKV == KVInsert \/ KVGet

SpecKV == InitKV /\ [][NextKV]_vars

\* What does hold of the echoing transport: a get returns the body last PUT
\* under the path it asks for.
KVByPath ==
    (got.op = "GetKVStoreKey" /\ got.res.reqs # << >>
        /\ got.res.reqs[1].path \in DOMAIN server) =>
        /\ got.res.err = NoError
        /\ got.res.val = server[got.res.reqs[1].path]

\* C8: GetKVStoreKey(id, k) returns exactly the value of the most recent
\* InsertKVStoreKey(id, k, v), whatever was inserted under other stores or
\* other keys in between.
C8_RoundTrip ==
    (got.op = "GetKVStoreKey" /\ <<got.in.ID, got.in.Key>> \in DOMAIN written) =>
        /\ got.res.err = NoError
        /\ got.res.val = written[<<got.in.ID, got.in.Key>>]

====
